---- MODULE Spec2Model ----
(***************************************************************************)
(* musicfig: the tag-driven control loop of app/lego.py (Base.startLego),  *)
(* the Lightshow workers it starts, the Playback Monitor thread and the    *)
(* portal driver (Dimensions).                                             *)
(*                                                                         *)
(* Time is counted in tenths of a second (the resolution of the resume     *)
(* threshold 0.1 s and of the Lightshow's sleep).                          *)
(***************************************************************************)
EXTENDS Integers, Sequences, FiniteSets, TLC

\* ---------------------------------------------------------------- bounds
MaxDur == 2          \* longest media duration, in tenths of a second
MaxQueue == 1        \* player notifications waiting in event_queue
MaxSteps == 1        \* passes of one Lightshow through its loop
MaxDraw == 1         \* pads and colours the Lightshow's random draws range over
MaxCommand == 33     \* longest command given to send_command directly
MaxShort == 7        \* longest frame a read may cut short

\* The Lightshow Thread objects the model follows; a start that finds both
\* still running waits for one of them to return.
ThreadSlots == {1, 2}

\* ------------------------------------------------------- program constants
ResumeMin == 1       \* remaining >= 0.1 s, in tenths (playMp3)
FrameLen == 32       \* bytes of a frame (send_command, update_nfc)

None == "None"
Unset == 0 - 1       \* a module global that has not been assigned yet

\* Tag identifiers: X and Y have a binding in tags['identifier'], U has none.
Ids == {"X", "Y", "U"}
BoundIds == {"X", "Y"}
\* The pad each tag is put on (pad 1 is the centre pad).
Placement == [X |-> 1, Y |-> 2, U |-> 3]

Fields == {"playlist", "mp3", "slack", "command", "spotify",
           "disney", "netflix", "youtube", "airplay", "xbox", "xbox_app"}

\* The configuration files of this model: tags['identifier'] for X and Y.
BindingConfigs == {
    [X |-> {"mp3"}, Y |-> {"mp3"}],
    [X |-> {"playlist", "mp3"}, Y |-> {"playlist"}],
    [X |-> {"mp3", "spotify"}, Y |-> {"airplay"}],
    [X |-> {"spotify", "disney"}, Y |-> {"slack", "command", "netflix"}],
    [X |-> {"youtube", "xbox", "xbox_app"}, Y |-> {"xbox"}],
    [X |-> {"command", "spotify", "disney", "netflix"},
     Y |-> {"youtube", "airplay", "xbox"}] }

MediaFields == {"playlist", "mp3", "spotify"}
TvFields == {"disney", "netflix", "youtube", "xbox"}

Uses(b, fs) == \E id \in DOMAIN b : b[id] \cap fs # {}

NoEvent == [status |-> "none", pad |-> 0, id |-> None]
NoWrite == [by |-> 0, op |-> "none", pad |-> 0, col |-> "OFF"]

\* self.COLOURS (the Lightshow palette), lines 147-150
COLOURS == <<"RED", "GREEN", "BLUE", "PINK", "ORANGE", "PURPLE", "LBLUE", "OLIVE">>

Least(a, b) == IF a <= b THEN a ELSE b

\* random.randint(0, 2) and random.randint(0, len(self.COLOURS) - 1), lines
\* 158-159, cut to the first MaxDraw values.
DrawnPads == 0..Least(2, MaxDraw - 1)
DrawnColours == 0..Least(Len(COLOURS) - 1, MaxDraw - 1)

VARIABLES
    pc,              \* position of the control thread in startLego
    err,             \* the exception that ended the control loop, "" if none
    devPresent,      \* Dimensions.dev is a device (TRUE) or None (FALSE)
    switch_lights,   \* tags['lights']
    spotifyActive,   \* what spotify.activated() answers
    syncConfigured,  \* what huesyncbox.configured() answers
    tvConfigured,    \* what samsungtv.configured() answers
    binding,         \* tags['identifier'][id] as the set of its fields
    ev,              \* status, pad, identifier of the event being processed
    current_tag,
    previous_tag,
    mp3state,
    mp3elapsed,
    mp3_duration,
    pstate,          \* mp3player.Player: what the player is doing
    queue,           \* Player.event_queue
    threads,         \* the Lightshow Thread objects
    lightshowThread, \* self.lightshowThread, 0 while the attribute is missing
    joinT,           \* the Thread object the control thread is joining
    lastWrite,       \* the pad command the last step handed to send_command
    calls,           \* calls made while processing ev, in order
    seqn,            \* history: progress of Added(X), Removed(X), Added(X)
    called,          \* the driver method called last, "" before __init__
    command,         \* send_command: the command of the call being followed
    message,         \* send_command: the frame handed to dev.write
    write_exc,       \* send_command: the exception dev.write raised, "" if none
    inwards_packet,  \* update_nfc: what dev.read did
    tag,             \* update_nfc: the value returned
    raised           \* the exception a driver call let through, "" if none

vars == <<pc, err, devPresent, switch_lights, spotifyActive, syncConfigured,
          tvConfigured, binding, ev,
          current_tag, previous_tag, mp3state, mp3elapsed, mp3_duration,
          pstate, queue, threads, lightshowThread, joinT,
          lastWrite, calls, seqn,
          called, command, message, write_exc, inwards_packet, tag, raised>>

config == <<devPresent, switch_lights, spotifyActive, syncConfigured,
           tvConfigured, binding>>
session == <<current_tag, previous_tag, mp3state, mp3_duration>>
player == <<pstate>>
shows == <<threads, lightshowThread>>
portal == <<called, command, message, write_exc, inwards_packet, tag,
            raised>>

\* update_nfc has not been called / returned None.
NoRead == [exc |-> "none", bytes |-> <<>>]
NoTag == <<>>

\* No driver call is being followed.
PortalIdle ==
    /\ called = ""
    /\ command = <<>>
    /\ message = <<>>
    /\ write_exc = ""
    /\ inwards_packet = NoRead
    /\ tag = NoTag
    /\ raised = ""

\* ----------------------------------------------------------------- helpers
Called(c) == \E i \in DOMAIN calls : calls[i][1] = c

CalledWith(c, a) == \E i \in DOMAIN calls : calls[i] = <<c, a>>

Call(c) == <<c, 0>>

Running(i) == threads[i].st # "done"

\* Thread.join: returns at once for a missing handle (AttributeError, lines
\* 321 and 343) and for a thread that has returned.
Joined(t) == IF t = 0 THEN TRUE ELSE ~Running(t)

\* A Lightshow of duration d > 0 passes through its loop at least once (the
\* first test comes right after t is taken) and at most MaxSteps times.
NewThread(d) == [st |-> "new", do_run |-> TRUE,
                 left |-> IF d > 0 THEN MaxSteps ELSE 0]

DeadThread == [st |-> "done", do_run |-> TRUE, left |-> 0]

FreeSlot == CHOOSE i \in ThreadSlots :
                /\ ~Running(i)
                /\ \A j \in ThreadSlots : ~Running(j) => i <= j

HasFreeSlot == \E i \in ThreadSlots : ~Running(i)

\* Dimensions.switch_pad / flash_pad as seen by the device: the last command.
PadWrite(who, op, pad, col) == [by |-> who, op |-> op, pad |-> pad, col |-> col]

\* startLightshow without the test of line 165.
ThreadsAfterStartAlways(ths, d) == [ths EXCEPT ![FreeSlot] = NewThread(d)]

\* Base.startLightshow: a new Thread object replaces self.lightshowThread and
\* is started, if tags['lights'] is true.
ThreadsAfterStart(ths, d) ==
    IF switch_lights THEN [ths EXCEPT ![FreeSlot] = NewThread(d)] ELSE ths

HandleAfterStart(h) == IF switch_lights THEN FreeSlot ELSE h

CanStart == switch_lights => HasFreeSlot

\* A removal handler that leaves the cancel flag alone.
ThreadsAfterCancelKept(ths, h) == ths

\* lines 319 / 341: self.lightshowThread.do_run = False (AttributeError while
\* the attribute is missing: nothing is set)
ThreadsAfterCancel(ths, h) ==
    IF h = 0 THEN ths ELSE [ths EXCEPT ![h].do_run = FALSE]

\* Lines 347-350 without the test of current_tag.
ResolvePreviousAlwaysId(cur, id) == id

\* lines 347-350
ResolvePrevious(cur, id) == IF cur = None THEN id ELSE cur

\* Line 346 without the membership test.
IsBoundAny(id) == TRUE

\* line 346: identifier in tags['identifier']
IsBound(id) == id \in BoundIds

\* tags['identifier'][identifier] as the set of its fields (lines 353-457).
BindingOf(id) == IF id \in DOMAIN binding THEN binding[id] ELSE {}

\* Line 317 without the comparison.
IsCurrentTagAny(id, cur) == TRUE

\* line 317
IsCurrentTag(id, cur) == id = cur

\* line 225
ShouldResume(prev, cur, st) == prev = cur /\ st = "PAUSED"

\* Line 229 without the elapsed time.
RemainingWhole(dur, el) == dur

\* line 229
Remaining(dur, el) == dur - el

\* Line 393 leaving current_tag as line 351 set it.
TagWithoutSpotifyKept(cur, prev) == cur

\* Line 393 clearing current_tag.
TagWithoutSpotifyCleared(cur, prev) == None

\* line 393
TagWithoutSpotify(cur, prev) == prev

\* send_command, lines 86-89: self.dev.write(1, message) inside
\* try / except usb.core.USBError. With self.dev = None (line 45) the call
\* raises AttributeError, which that handler does not catch.
SendCommandRaises(present) == ~present

TypeOK ==
    /\ pc \in STRING
    /\ ev.status \in {"none", "added", "removed"}
    /\ current_tag \in BoundIds \cup {None}
    /\ previous_tag \in BoundIds \cup {None}
    /\ mp3state \in {None, "STOPPED", "PLAYING", "PAUSED"}
    /\ mp3elapsed \in Unset..MaxDur
    /\ Len(queue) <= MaxQueue
    /\ lightshowThread \in {0} \cup ThreadSlots

\* -------------------------------------------------------------------- Init
Init ==
    /\ pc = "startup"
    /\ err = ""
    /\ binding \in BindingConfigs
    /\ devPresent \in BOOLEAN
    /\ switch_lights \in BOOLEAN
    /\ spotifyActive \in BOOLEAN
    /\ syncConfigured \in BOOLEAN
    /\ tvConfigured \in BOOLEAN
    /\ spotifyActive => Uses(binding, {"spotify"})
    /\ syncConfigured => Uses(binding, TvFields \ {"xbox"})
    /\ tvConfigured => Uses(binding, TvFields)
    /\ ev = NoEvent
    /\ current_tag = None
    /\ previous_tag = None
    /\ mp3state = None
    /\ mp3elapsed = Unset
    /\ mp3_duration = Unset
    /\ pstate = "STOPPED"
    /\ queue = <<>>
    /\ threads = [i \in ThreadSlots |-> DeadThread]
    /\ lightshowThread = 0
    /\ joinT = 0
    /\ lastWrite = NoWrite
    /\ calls = <<>>
    /\ seqn = [ph |-> 0, id |-> None, expect |-> FALSE]
    /\ PortalIdle

\* ------------------------------------------------ order of the binding fields
\* The tests of lines 353 and 360 in the opposite order.
FieldOrderMp3First == <<"mp3", "playlist", "slack", "command", "spotify",
                        "disney", "netflix", "youtube", "airplay", "xbox">>

\* The order in which startLego tests the fields of a binding (lines 353-457).
FieldOrder == <<"playlist", "mp3", "slack", "command", "spotify",
                "disney", "netflix", "youtube", "airplay", "xbox">>

FieldIndex(f) == CHOOSE i \in DOMAIN FieldOrder : FieldOrder[i] = f

\* The next field of binding b that startLego reaches after position n of
\* FieldOrder, "poll" when none is left (back to update_nfc).
FieldAfter(n, b) ==
    LET later == {i \in DOMAIN FieldOrder : i > n /\ FieldOrder[i] \in b}
    IN  IF later = {} THEN "poll"
        ELSE FieldOrder[CHOOSE i \in later : \A j \in later : i <= j]

NextPc(f) == FieldAfter(FieldIndex(f), binding[ev.id])

\* An uncaught exception leaves startLego's while loop.
Raise(e) == /\ pc' = "crashed"
            /\ err' = e

\* ------------------------------------------------------------ control thread
\* startLego up to the loop: Dimensions(), initMp3(), tags['lights'] and the
\* first switch_pad. send_command calls self.dev.write and catches USBError
\* only, so with self.dev = None the AttributeError leaves startLego.
Startup ==
    /\ pc = "startup"
    /\ IF ~SendCommandRaises(devPresent)
       THEN /\ pc' = "poll"
            /\ lastWrite' = PadWrite(0, "switch", 0,
                                     IF switch_lights THEN "GREEN" ELSE "OFF")
            /\ UNCHANGED err
       ELSE /\ Raise("AttributeError")
            /\ lastWrite' = NoWrite
    /\ UNCHANGED <<config, portal, ev, session, mp3elapsed, player, queue,
                   shows, joinT, calls, seqn>>

\* update_nfc returned 'removed:pad:id' for an id that is not current_tag.
RemovedOther ==
    /\ pc = "poll"
    /\ \E id \in Ids :
         /\ ~IsCurrentTag(id, current_tag)
         /\ ev' = [status |-> "removed", pad |-> Placement[id], id |-> id]
    /\ calls' = <<>>
    /\ seqn' = [ph |-> 0, id |-> None, expect |-> FALSE]
    /\ UNCHANGED <<pc, err, config, portal, session, mp3elapsed, player, queue,
                   shows, joinT>>
    /\ lastWrite' = NoWrite

\* update_nfc returned 'removed:pad:id' for current_tag: line 319.
RemovedCurrent ==
    /\ pc = "poll"
    /\ \E id \in Ids :
         /\ IsCurrentTag(id, current_tag)
         /\ ev' = [status |-> "removed", pad |-> Placement[id], id |-> id]
         /\ seqn' = [ph |-> IF seqn.ph = 1 /\ seqn.id = id THEN 1 ELSE 0,
                     id |-> id, expect |-> FALSE]
    /\ calls' = <<>>
    /\ threads' = ThreadsAfterCancel(threads, lightshowThread)
    /\ joinT' = lightshowThread
    /\ pc' = "rm_join"
    /\ UNCHANGED <<err, config, portal, session, mp3elapsed, player, queue,
                   lightshowThread>>
    /\ lastWrite' = NoWrite

\* line 320: join returns once the worker has returned.
RemovedJoin ==
    /\ pc = "rm_join"
    /\ Joined(joinT)
    /\ joinT' = 0
    /\ pc' = "rm_pause"
    /\ UNCHANGED <<err, config, portal, ev, session, mp3elapsed, player, queue,
                   shows, calls, seqn>>
    /\ lastWrite' = NoWrite

\* pauseMp3, lines 215-216: the test of mp3state and p.pause().
PauseTest ==
    /\ pc = "rm_pause"
    /\ IF mp3state = "PLAYING"
       THEN /\ pstate' = IF pstate = "PLAYING" THEN "PAUSED" ELSE pstate
            /\ calls' = Append(calls, Call("p.pause"))
            /\ pc' = "rm_pause_set"
       ELSE /\ pc' = "rm_spotify"
            /\ UNCHANGED <<pstate, calls>>
    /\ seqn' = [seqn EXCEPT !.ph = IF seqn.ph = 1 /\ mp3state = "PLAYING"
                                   THEN 2 ELSE 0]
    /\ UNCHANGED <<err, config, portal, ev, session, mp3elapsed, queue,
                   shows, joinT>>
    /\ lastWrite' = NoWrite

\* pauseMp3, line 218.
PauseSet ==
    /\ pc = "rm_pause_set"
    /\ mp3state' = "PAUSED"
    /\ pc' = "rm_spotify"
    /\ UNCHANGED <<err, config, portal, ev, current_tag, previous_tag,
                   mp3_duration, mp3elapsed, player, queue, shows, joinT,
                   calls, seqn>>
    /\ lastWrite' = NoWrite

\* lines 324-325.
RemovedSpotify ==
    /\ pc = "rm_spotify"
    /\ calls' = IF spotifyActive THEN Append(calls, Call("spotify.pause"))
                ELSE calls
    /\ pc' = "poll"
    /\ UNCHANGED <<err, config, portal, ev, session, mp3elapsed, player, queue,
                   shows, joinT, seqn>>
    /\ lastWrite' = NoWrite

\* update_nfc returned 'added:pad:id': lines 327-341 (the blue feedback, the
\* reload of the tags and the cancel flag of the running Lightshow).
Added ==
    /\ pc = "poll"
    /\ \E id \in Ids :
         /\ ev' = [status |-> "added", pad |-> Placement[id], id |-> id]
         /\ lastWrite' = IF switch_lights
                         THEN PadWrite(0, "switch", Placement[id], "BLUE")
                         ELSE NoWrite
         /\ seqn' = [ph |-> IF id \in BoundIds /\ "mp3" \in binding[id]
                            THEN 1 ELSE 0,
                     id |-> id,
                     expect |-> (seqn.ph = 2 /\ seqn.id = id)]
    /\ calls' = <<>>
    /\ threads' = ThreadsAfterCancel(threads, lightshowThread)
    /\ joinT' = lightshowThread
    /\ pc' = "add_join"
    /\ UNCHANGED <<err, config, portal, session, mp3elapsed, player, queue,
                   lightshowThread>>

\* lines 342-351: after the join, a tag with a binding becomes current_tag.
AddedBound ==
    /\ pc = "add_join"
    /\ Joined(joinT)
    /\ IsBound(ev.id)
    /\ joinT' = 0
    /\ previous_tag' = ResolvePrevious(current_tag, ev.id)
    /\ current_tag' = ev.id
    /\ pc' = FieldAfter(0, BindingOf(ev.id))
    /\ UNCHANGED <<err, config, portal, ev, mp3state, mp3_duration, mp3elapsed,
                   player, queue, shows, calls, seqn>>
    /\ lastWrite' = NoWrite

\* lines 342-346 and 494-497: after the join, a tag without a binding.
AddedUnknown ==
    /\ pc = "add_join"
    /\ Joined(joinT)
    /\ ~IsBound(ev.id)
    /\ joinT' = 0
    /\ lastWrite' = PadWrite(0, "switch", ev.pad, "RED")
    /\ pc' = "poll"
    /\ UNCHANGED <<err, config, portal, ev, session, mp3elapsed, player, queue,
                   shows, calls, seqn>>

\* ------------------------------------------------------- binding field actions
\* playPlaylist (lines 238-259) with startMp3(..., True) (lines 199-207).
\* glob may find no file; MP3(file) raises on a file it cannot read and
\* nothing between it and the while loop catches that.
FPlaylist ==
    /\ pc = "playlist"
    /\ CanStart
    /\ \E found \in BOOLEAN, readable \in BOOLEAN :
         IF ~found
         THEN /\ lastWrite' = PadWrite(0, "flash", 0, "ORANGE")
              /\ calls' = calls \o <<Call("playlist"), Call("spotify.pause")>>
              /\ pc' = NextPc("playlist")
              /\ UNCHANGED <<err, mp3state, mp3_duration, player, shows>>
         ELSE IF ~readable
         THEN /\ Raise("MutagenError")
              /\ pstate' = "PLAYING"
              /\ mp3_duration' = 0
              /\ calls' = calls \o <<Call("playlist"), Call("spotify.pause"),
                                     Call("p.playlist")>>
              /\ UNCHANGED <<mp3state, shows>>
              /\ lastWrite' = NoWrite
         ELSE /\ pstate' = "PLAYING"
              /\ mp3_duration' = MaxDur
              /\ threads' = ThreadsAfterStart(threads, MaxDur)
              /\ lightshowThread' = HandleAfterStart(lightshowThread)
              /\ mp3state' = "PLAYING"
              /\ calls' = calls \o <<Call("playlist"), Call("spotify.pause"),
                                     Call("p.playlist"),
                                     <<"startLightshow", MaxDur>>>>
              /\ pc' = NextPc("playlist")
              /\ UNCHANGED <<err>>
              /\ lastWrite' = NoWrite
    /\ UNCHANGED <<config, portal, ev, current_tag, previous_tag, mp3elapsed,
                   queue, joinT, seqn>>

\* playMp3, lines 224-228: spotify.pause(), the resume test and p.play().
FMp3 ==
    /\ pc = "mp3"
    /\ IF ShouldResume(previous_tag, current_tag, mp3state)
       THEN /\ pstate' = "PLAYING"
            /\ calls' = calls \o <<Call("mp3"), Call("spotify.pause"),
                                   Call("p.play")>>
            /\ pc' = "mp3_res"
       ELSE /\ calls' = calls \o <<Call("mp3"), Call("spotify.pause")>>
            /\ pc' = "mp3_new"
            /\ UNCHANGED pstate
    /\ UNCHANGED <<err, config, portal, ev, session, mp3elapsed, queue,
                   shows, joinT, seqn>>
    /\ lastWrite' = NoWrite

\* playMp3, lines 229-232: the remaining time read from the globals; a
\* global that no thread has assigned yet raises NameError.
FMp3Resume ==
    /\ pc = "mp3_res"
    /\ CanStart
    /\ IF mp3elapsed = Unset \/ mp3_duration = Unset
       THEN /\ Raise("NameError")
            /\ UNCHANGED <<shows, calls>>
       ELSE IF Remaining(mp3_duration, mp3elapsed) >= ResumeMin
       THEN /\ threads' = ThreadsAfterStart(threads,
                              Remaining(mp3_duration, mp3elapsed))
            /\ lightshowThread' = HandleAfterStart(lightshowThread)
            /\ calls' = Append(calls, <<"startLightshow",
                              Remaining(mp3_duration, mp3elapsed)>>)
            /\ pc' = NextPc("mp3")
            /\ UNCHANGED err
       ELSE /\ pc' = "mp3_new"
            /\ UNCHANGED <<err, shows, calls>>
    /\ UNCHANGED <<config, portal, ev, session, mp3elapsed, player, queue,
                   joinT, seqn>>
    /\ lastWrite' = NoWrite

\* playMp3, lines 234-236: stopMp3(), startMp3(filename, mp3_dir) (lines
\* 190-197) and mp3state = 'PLAYING'. MP3(mp3file) raises on a file it cannot
\* read, after stopMp3 and the player calls.
FMp3New ==
    /\ pc = "mp3_new"
    /\ CanStart
    /\ \E readable \in BOOLEAN :
         IF readable
         THEN /\ pstate' = "PLAYING"
              /\ mp3_duration' = MaxDur
              /\ threads' = ThreadsAfterStart(threads, MaxDur)
              /\ lightshowThread' = HandleAfterStart(lightshowThread)
              /\ mp3state' = "PLAYING"
              /\ calls' = calls \o <<Call("p.open"), Call("p.play"),
                                     <<"startLightshow", MaxDur>>>>
              /\ pc' = NextPc("mp3")
              /\ UNCHANGED err
         ELSE /\ Raise("MutagenError")
              /\ mp3state' = "STOPPED"
              /\ calls' = calls \o <<Call("p.open"), Call("p.play")>>
              /\ UNCHANGED <<mp3_duration, player, shows>>
    /\ UNCHANGED <<config, portal, ev, current_tag, previous_tag, mp3elapsed,
                   queue, joinT, seqn>>
    /\ lastWrite' = NoWrite

\* lines 363-364.
FSlack ==
    /\ pc = "slack"
    /\ calls' = calls \o <<Call("slack"), Call("webhook.post")>>
    /\ pc' = NextPc("slack")
    /\ UNCHANGED <<err, config, portal, ev, session, mp3elapsed, player, queue,
                   shows, joinT, seqn>>
    /\ lastWrite' = NoWrite

\* lines 365-375: subprocess.run inside try/except; its outcome (1 ran,
\* 0 timed out or failed) changes nothing but the log.
FCommand ==
    /\ pc = "command"
    /\ \E ok \in 0..1 :
         calls' = calls \o <<Call("command"), <<"subprocess.run", ok>>>>
    /\ pc' = NextPc("command")
    /\ UNCHANGED <<err, config, portal, ev, session, mp3elapsed, player, queue,
                   shows, joinT, seqn>>
    /\ lastWrite' = NoWrite

\* lines 376-393: the spotify field. With the provider activated: resume and
\* `continue` when current_tag == previous_tag, else stopMp3 and spotcast.
\* With the provider not activated: current_tag = previous_tag.
FSpotify ==
    /\ pc = "spotify"
    /\ CanStart
    /\ IF spotifyActive
       THEN \E d \in {0, MaxDur} :
              IF current_tag = previous_tag
              THEN /\ threads' = ThreadsAfterStart(threads, d)
                   /\ lightshowThread' = HandleAfterStart(lightshowThread)
                   /\ calls' = calls \o <<Call("spotify"),
                                  <<"spotify.resume", d>>,
                                  <<"startLightshow", d>>>>
                   /\ pc' = "poll"
                   /\ UNCHANGED <<current_tag, mp3state>>
                   /\ lastWrite' = NoWrite
              ELSE /\ mp3state' = "STOPPED"
                   /\ IF d > 0
                      THEN /\ threads' = ThreadsAfterStart(threads, d)
                           /\ lightshowThread' =
                                  HandleAfterStart(lightshowThread)
                           /\ calls' = calls \o <<Call("spotify"),
                                          <<"spotify.spotcast", d>>,
                                          <<"startLightshow", d>>>>
                           /\ lastWrite' = NoWrite
                      ELSE /\ lastWrite' = PadWrite(0, "flash", ev.pad, "RED")
                           /\ calls' = calls \o <<Call("spotify"),
                                          <<"spotify.spotcast", d>>>>
                           /\ UNCHANGED shows
                   /\ pc' = NextPc("spotify")
                   /\ UNCHANGED current_tag
       ELSE /\ current_tag' = TagWithoutSpotify(current_tag, previous_tag)
            /\ calls' = Append(calls, Call("spotify"))
            /\ pc' = NextPc("spotify")
            /\ UNCHANGED <<mp3state, shows>>
            /\ lastWrite' = NoWrite
    /\ UNCHANGED <<err, config, portal, ev, previous_tag, mp3_duration,
                   mp3elapsed, player, queue, joinT, seqn>>

\* switchHdmiToAppleTv without the test of line 278: the Samsung TV is tried
\* whatever the Sync Box answered.
HdmiCallsBoth(syncOk, tvOk) ==
    LET first == IF syncConfigured
                 THEN <<<<"huesyncbox.configured", 1>>,
                        <<"huesyncbox.switch_to_appletv_sync", syncOk>>>>
                 ELSE <<<<"huesyncbox.configured", 0>>>>
        switched == IF syncConfigured THEN syncOk ELSE 0
        second == IF tvConfigured
                  THEN <<<<"samsungtv.configured", 1>>,
                         <<"samsungtv.switch_to_appletv", tvOk>>>>
                  ELSE <<<<"samsungtv.configured", 0>>>>
        result == IF tvConfigured THEN tvOk ELSE switched
    IN  first \o second \o <<<<"switchHdmiToAppleTv", result>>>>

\* switchHdmiToAppleTv (lines 261-284): the calls it makes, given what the two
\* switch verbs answer; its last entry is the value it returns.
HdmiCalls(syncOk, tvOk) ==
    LET first == IF syncConfigured
                 THEN <<<<"huesyncbox.configured", 1>>,
                        <<"huesyncbox.switch_to_appletv_sync", syncOk>>>>
                 ELSE <<<<"huesyncbox.configured", 0>>>>
        switched == IF syncConfigured THEN syncOk ELSE 0
        second == IF switched = 1 THEN <<>>
                  ELSE IF tvConfigured
                  THEN <<<<"samsungtv.configured", 1>>,
                         <<"samsungtv.switch_to_appletv", tvOk>>>>
                  ELSE <<<<"samsungtv.configured", 0>>>>
        result == IF switched = 1 THEN 1
                  ELSE IF tvConfigured THEN tvOk ELSE 0
    IN  first \o second \o <<<<"switchHdmiToAppleTv", result>>>>

\* One OK press whatever the family.
OkPressesOne(f) == 1

\* The OK presses that follow a successful launch: lines 405, 421-424, 439.
OkPresses(f) == IF f = "netflix" THEN 2 ELSE 1

KeyCalls(n) == [i \in 1..n |-> Call("samsungtv.send_key:OK")]

\* One deep-link field (disney 395-408, netflix 410-427, youtube 429-442):
\* appletv.activated() is always true (appletv.py 316-320).
DeepLink(f) ==
    /\ pc = f
    /\ mp3state' = "STOPPED"
    /\ \E syncOk \in 0..1, tvOk \in 0..1, ok \in 0..1 :
         /\ calls' = calls \o <<Call(f)>> \o HdmiCalls(syncOk, tvOk)
                       \o <<<<"appletv.launch", ok>>>>
                       \o (IF ok = 1 THEN KeyCalls(OkPresses(f)) ELSE <<>>)
         /\ lastWrite' = IF ok = 1
                         THEN PadWrite(0, "switch", ev.pad, "PURPLE")
                         ELSE PadWrite(0, "flash", ev.pad, "RED")
    /\ pc' = NextPc(f)
    /\ UNCHANGED <<err, config, portal, ev, current_tag, previous_tag,
                   mp3_duration, mp3elapsed, player, queue, shows, joinT,
                   seqn>>

FDisney == DeepLink("disney")

FNetflix == DeepLink("netflix")

FYoutube == DeepLink("youtube")

\* lines 444-455: homepod.stream_file catches every exception (homepod.py
\* 106-140) and answers True or False.
FAirplay ==
    /\ pc = "airplay"
    /\ mp3state' = "STOPPED"
    /\ \E ok \in 0..1 :
         /\ calls' = calls \o <<Call("airplay"), <<"homepod.stream_file", ok>>>>
         /\ lastWrite' = IF ok = 1
                         THEN PadWrite(0, "switch", ev.pad, "LBLUE")
                         ELSE PadWrite(0, "flash", ev.pad, "RED")
    /\ pc' = NextPc("airplay")
    /\ UNCHANGED <<err, config, portal, ev, current_tag, previous_tag,
                   mp3_duration, mp3elapsed, player, queue, shows, joinT,
                   seqn>>

\* nav_keys, lines 466-475
NavKeys == <<"HOME", "LEFT", "DOWN", "RIGHT", "DOWN", "DOWN", "DOWN", "OK">>

\* The loop of lines 476-480 left at the first key that fails.
NavCallsUntilBad(bad) ==
    [i \in {k \in DOMAIN NavKeys : bad = 0 \/ k <= bad} |->
        <<"samsungtv.send_key:nav", IF i = bad THEN 0 ELSE i>>]

\* lines 476-480: every key is sent; bad is the key that fails (0: none).
NavCalls(bad) ==
    [i \in DOMAIN NavKeys |->
        <<"samsungtv.send_key:nav", IF i = bad THEN 0 ELSE i>>]

\* The key that fails when one does: RIGHT, with four keys still to send.
BadKeys == {0, Len(NavKeys) \div 2}

\* lines 457-493: the xbox field.
FXbox ==
    /\ pc = "xbox"
    /\ mp3state' = "STOPPED"
    /\ \E bad \in BadKeys, ok \in 0..1 :
         /\ calls' = calls \o <<Call("xbox")>>
                       \o (IF tvConfigured
                           THEN <<<<"samsungtv.configured", 1>>>>
                                    \o NavCalls(bad)
                           ELSE <<<<"samsungtv.configured", 0>>>>)
                       \o <<<<"xboxctl.sync_power_on", ok>>>>
                       \o (IF ok = 1 /\ "xbox_app" \in binding[ev.id]
                           THEN <<Call("xboxctl.sync_launch_app")>> ELSE <<>>)
         /\ lastWrite' = IF ok = 1
                         THEN PadWrite(0, "switch", ev.pad, "OLIVE")
                         ELSE PadWrite(0, "flash", ev.pad, "RED")
    /\ pc' = "poll"
    /\ UNCHANGED <<err, config, portal, ev, current_tag, previous_tag,
                   mp3_duration, mp3elapsed, player, queue, shows, joinT,
                   seqn>>

\* ---------------------------------------------------------- Lightshow worker
\* Line 157 without the test of the elapsed time.
LoopGoesOnUntimed(i) == threads[lightshowThread].do_run

\* line 157: getattr(self.lightshowThread, "do_run", True) and
\* (time.perf_counter() - t) < duration
LoopGoesOn(i) == threads[lightshowThread].do_run /\ threads[i].left > 0

\* The passes still allowed after one pass and its sleep.
LeftAfter(left) == IF left > 0 THEN 0..(left - 1) ELSE {0}

\* randomLightshow without its last line.
ExitWriteMissing(i) == NoWrite

\* line 162: self.base.switch_pad(0, self.OFF)
ExitWrite(i) == PadWrite(i, "switch", 0, "OFF")

\* randomLightshow, lines 155-156.
WorkerBegin(i) ==
    /\ pc # "crashed"
    /\ threads[i].st = "new"
    /\ lightshowThread' = i
    /\ threads' = [threads EXCEPT ![i].st = "loop"]
    /\ UNCHANGED <<pc, err, config, portal, ev, session, mp3elapsed, player,
                   queue, joinT, calls, seqn>>
    /\ lastWrite' = NoWrite

\* randomLightshow, lines 157-162: one test of the loop condition, then one
\* pad write and sleep if it holds (left counts the passes the duration still
\* allows; a sleep may use up several), and the final switch_pad(0, OFF) and
\* the return of the thread if it does not. The flag read is the do_run of
\* whatever Thread object self.lightshowThread names at that moment. The
\* two random draws range over pads and colours.
WorkerLoopOver(i, pads, colours) ==
    /\ pc # "crashed"
    /\ threads[i].st = "loop"
    /\ IF LoopGoesOn(i)
       THEN /\ \E pad \in pads, c \in colours :
                 lastWrite' = PadWrite(i, "switch", pad, COLOURS[c + 1])
            /\ \E l \in LeftAfter(threads[i].left) :
                 threads' = [threads EXCEPT ![i].left = l]
       ELSE /\ lastWrite' = ExitWrite(i)
            /\ threads' = [threads EXCEPT ![i].st = "done", ![i].left = 0]
    /\ UNCHANGED <<pc, err, config, portal, ev, session, mp3elapsed, player,
                   queue, lightshowThread, joinT, calls, seqn>>

WorkerLoop(i) == WorkerLoopOver(i, DrawnPads, DrawnColours)

Worker == \E i \in ThreadSlots : WorkerBegin(i) \/ WorkerLoop(i)

\* A draw of random.randint(0, 3).
AllPadsFour == 0..3

\* line 158: random.randint(0, 2), both ends included.
AllPads == 0..2

\* line 159: random.randint(0, len(self.COLOURS) - 1)
AllColours == 0..(Len(COLOURS) - 1)

\* The worker with its draws over their whole ranges.
WorkerLoopFull(i) == WorkerLoopOver(i, AllPads, AllColours)

WorkerFull == \E i \in ThreadSlots : WorkerBegin(i) \/ WorkerLoopFull(i)

\* ------------------------------------------------- player and Playback Monitor
\* mp3player.Player: once it has been given something to play, it queues
\* status notifications (state, elapsed seconds of the track). Nothing reads
\* the elapsed time of a notification before the monitor does, so it is drawn
\* there.
PlayerReport ==
    /\ pc \notin {"startup", "crashed"}
    /\ pstate # "STOPPED"
    /\ Len(queue) < MaxQueue
    /\ queue' = Append(queue, pstate)
    /\ lastWrite' = NoWrite
    /\ UNCHANGED <<pc, err, config, portal, ev, session, mp3elapsed, player,
                   shows, joinT, calls, seqn>>

\* A monitor that forgets the state it was told.
ReportedStateUnset(q) == None

\* line 179: mp3state = str(state[0]).replace('PlayerState.', ''), the name
\* of the state the oldest notification carries.
ReportedState(q) == Head(q)

\* initMp3.monitor, lines 178-181.
Monitor ==
    /\ pc \notin {"startup", "crashed"}
    /\ queue # <<>>
    /\ mp3state' = ReportedState(queue)
    /\ \E e \in 0..MaxDur : mp3elapsed' = e
    /\ queue' = Tail(queue)
    /\ lastWrite' = NoWrite
    /\ UNCHANGED <<pc, err, config, portal, ev, current_tag, previous_tag,
                   mp3_duration, player, shows, joinT, calls, seqn>>

\* ------------------------------------------------------------- specification
Next ==
    \/ Startup
    \/ RemovedOther
    \/ RemovedCurrent
    \/ RemovedJoin
    \/ PauseTest
    \/ PauseSet
    \/ RemovedSpotify
    \/ Added
    \/ AddedBound
    \/ AddedUnknown
    \/ FPlaylist
    \/ FMp3
    \/ FMp3Resume
    \/ FMp3New
    \/ FSlack
    \/ FCommand
    \/ FSpotify
    \/ FDisney
    \/ FNetflix
    \/ FYoutube
    \/ FAirplay
    \/ FXbox
    \/ Worker
    \/ PlayerReport
    \/ Monitor

Spec == Init /\ [][Next]_vars

\* ------------------------------------------------------------------ properties
AddedBoundDone == pc = "poll" /\ ev.status = "added" /\ ev.id \in BoundIds

RunningShows == {i \in ThreadSlots : Running(i)}

\* C1: for a tag whose binding has an mp3 field, Added(X), then Removed(X)
\* processed while playback is PLAYING, then Added(X) with no other tag event
\* in between: the second Added(X) takes the resume path of playMp3 (p.play(),
\* no re-open of the file, no restart of a playlist before it).
C1_ReAddResumes ==
    [][(seqn.expect /\ pc = "mp3" /\ pc' # "mp3")
         => /\ pc' = "mp3_res"
            /\ \E i \in DOMAIN calls' : calls'[i] = Call("p.play")
            /\ \A i \in DOMAIN calls' :
                 calls'[i][1] \notin {"p.open", "p.playlist"}]_vars

\* C2: in every reachable state at most one Lightshow thread is running.
C2_AtMostOneLightshow == Cardinality(RunningShows) <= 1

\* C3: no processing of a tag event ends the control loop.
C3_LoopSurvivesEvents == ~(pc = "crashed" /\ ev.status # "none")

\* C4: with the portal device missing, send_command returns normally, so
\* startLego gets past its first switch_pad and the loop is not ended.
C4_DisabledDriverIsNoOp == ~devPresent => pc # "crashed"

\* C5: when the processing of a bound Added(id) has finished, the action of
\* every field of the binding has been attempted.
C5_EveryFieldAttempted ==
    AddedBoundDone =>
        \A i \in DOMAIN FieldOrder :
            FieldOrder[i] \in binding[ev.id] => Called(FieldOrder[i])

\* C6 as the specification states it: when the processing of Added(id) for a
\* bound id has finished, current_tag = id.
C6_CurrentTagIsAddedId == AddedBoundDone => current_tag = ev.id

\* C6, amended: when the processing of Added(id) for a bound id has finished,
\* current_tag = id, except that for a binding with a spotify field and the
\* streaming provider not activated current_tag = previous_tag.
C6_CurrentTagAfterAdded ==
    AddedBoundDone =>
        current_tag = IF "spotify" \in binding[ev.id] /\ ~spotifyActive
                      THEN previous_tag
                      ELSE ev.id

C6_Witness ==
    /\ AddedBoundDone
    /\ "spotify" \in binding[ev.id]
    /\ ~spotifyActive
    /\ current_tag # ev.id
    /\ Called("spotify")

\* C7: the step that accepts Added(id) for a bound id sets previous_tag to the
\* value current_tag had before it, or to id if current_tag was unset (then
\* previous_tag and current_tag get the same value), and previous_tag keeps
\* that value for the rest of the event's processing.
C7_PreviousTagResolved ==
    [][/\ (pc = "add_join" /\ pc' # "add_join" /\ ev.id \in BoundIds)
            => /\ current_tag # None => previous_tag' = current_tag
               /\ current_tag = None => /\ previous_tag' = ev.id
                                        /\ previous_tag' = current_tag'
       /\ pc \notin {"poll", "add_join"} => previous_tag' = previous_tag]_vars

C7_Witness ==
    /\ AddedBoundDone
    /\ ev.id = "X"
    /\ previous_tag = "Y"
    /\ current_tag = "X"

\* C8: once current_tag is set no step unsets it, and no step taken while a
\* Removed event is accepted or processed changes it.
C8_CurrentTagStaysSet ==
    [][/\ current_tag # None => current_tag' # None
       /\ ev'.status = "removed" => current_tag' = current_tag]_vars

C8_Witness ==
    /\ pc = "poll"
    /\ ev.status = "removed"
    /\ ev.id = current_tag
    /\ current_tag # previous_tag
    /\ Called("p.pause")

\* C9: the step that accepts Removed(id) with id # current_tag changes neither
\* the session state nor the player nor any Lightshow thread (its cancel flag
\* included), makes no call, writes no pad and goes on polling.
C9_RemovedOtherChangesNothing ==
    [][(pc = "poll" /\ ev' # ev /\ ev'.status = "removed"
                    /\ ev'.id # current_tag)
         => /\ UNCHANGED <<current_tag, previous_tag, mp3state, mp3elapsed,
                           mp3_duration, pstate, queue, threads,
                           lightshowThread, joinT>>
            /\ calls' = <<>>
            /\ lastWrite' = NoWrite
            /\ pc' = "poll"]_vars

C9_Witness ==
    /\ pc = "poll"
    /\ ev.status = "removed"
    /\ ev.id # current_tag
    /\ current_tag # None
    /\ mp3state = "PLAYING"
    /\ pstate = "PLAYING"
    /\ lightshowThread # 0
    /\ threads[lightshowThread].st = "loop"
    /\ threads[lightshowThread].do_run

\* C10: processing Removed(id) with id = current_tag sets the cancel flag of
\* the Thread self.lightshowThread names and goes on only when that thread has
\* returned; if mp3state is PLAYING at pauseMp3's test, p.pause() is called and
\* mp3state is set to PAUSED, otherwise the player is not called; spotify.pause()
\* is called exactly when the provider is activated; current_tag is unchanged.
C10_RemovedCurrentPauses ==
    [][/\ (pc = "poll" /\ pc' = "rm_join")
            => /\ ev'.status = "removed" /\ ev'.id = current_tag
               /\ joinT' = lightshowThread
               /\ lightshowThread # 0 =>
                     ~threads'[lightshowThread].do_run
       /\ (pc = "rm_join" /\ pc' # "rm_join")
            => /\ joinT # 0 => threads[joinT].st = "done"
               /\ pc' = "rm_pause"
       /\ (pc = "rm_pause" /\ pc' # "rm_pause")
            => IF mp3state = "PLAYING"
               THEN /\ calls' = Append(calls, Call("p.pause"))
                    /\ pc' = "rm_pause_set"
               ELSE /\ calls' = calls
                    /\ pstate' = pstate
                    /\ pc' = "rm_spotify"
       /\ (pc = "rm_pause_set" /\ pc' # "rm_pause_set")
            => mp3state' = "PAUSED" /\ pc' = "rm_spotify"
       /\ (pc = "rm_spotify" /\ pc' # "rm_spotify")
            => /\ spotifyActive <=>
                     calls' = Append(calls, Call("spotify.pause"))
               /\ ~spotifyActive => calls' = calls
               /\ pc' = "poll"
       /\ pc \in {"rm_join", "rm_pause", "rm_pause_set", "rm_spotify"}
            => current_tag' = current_tag /\ ev' = ev]_vars

C10_Witness ==
    /\ pc = "poll"
    /\ ev.status = "removed"
    /\ ev.id = current_tag
    /\ calls = <<Call("p.pause"), Call("spotify.pause")>>
    /\ mp3state = "PAUSED"
    /\ lightshowThread # 0
    /\ threads[lightshowThread].st = "done"
    /\ ~threads[lightshowThread].do_run

AddedUnbound == ev.status = "added" /\ ev.id \notin BoundIds

\* C11: no step that accepts or processes Added(id) for an id without a
\* binding, and no step taken until the next event, changes current_tag or
\* previous_tag.
C11_UnboundKeepsTags ==
    [][(ev'.status = "added" /\ ev'.id \notin BoundIds)
         => UNCHANGED <<current_tag, previous_tag>>]_vars

C11_Witness ==
    /\ pc = "poll"
    /\ AddedUnbound
    /\ lastWrite = PadWrite(0, "switch", ev.pad, "RED")
    /\ current_tag = "X"
    /\ previous_tag = "Y"

\* C12: the control thread's steps for Added(id) with an unbound id write no
\* pad colour but RED on the tag's pad, leave the cancel flag of every
\* Lightshow thread as it is and make no call.
C12_UnboundOnlyPaintsRed ==
    [][(ev'.status = "added" /\ ev'.id \notin BoundIds /\ pc' # pc)
         => /\ lastWrite' \in {NoWrite, PadWrite(0, "switch", ev'.pad, "RED")}
            /\ \A i \in ThreadSlots : threads'[i].do_run = threads[i].do_run
            /\ calls' = <<>>]_vars

\* C13: once the feedback for a newly added tag has been written (BLUE, line
\* 328), no Lightshow thread writes a pad while that Added is being handled.
C13_NoShowWriteAfterFeedback ==
    [][(pc = "add_join" /\ switch_lights) => lastWrite'.by \notin ThreadSlots]_vars

\* The order of the fields as the specification gives it (mp3 first) and as
\* lines 353-457 test them (playlist first).
StatedOrder == <<"mp3", "playlist", "slack", "command", "spotify",
                 "disney", "netflix", "youtube", "airplay", "xbox">>

TestedOrder == <<"playlist", "mp3", "slack", "command", "spotify",
                 "disney", "netflix", "youtube", "airplay", "xbox">>

Position(order, f) == CHOOSE i \in DOMAIN order : order[i] = f

IsField(c) == \E i \in DOMAIN TestedOrder : TestedOrder[i] = c

\* The field actions logged for the current event follow each other as in order.
CallsFollow(order) ==
    \A i \in DOMAIN calls : \A j \in DOMAIN calls :
        (i < j /\ IsField(calls[i][1]) /\ IsField(calls[j][1]))
            => Position(order, calls[i][1]) < Position(order, calls[j][1])

\* C14 as the specification states it: the actions of one bound Added event
\* run in the order mp3, playlist, slack, command, spotify, disney, netflix,
\* youtube, airplay, xbox.
C14_StatedOrderHolds == CallsFollow(StatedOrder)

\* C14, amended: the actions of one bound Added event run in the order
\* playlist, mp3, slack, command, spotify, disney, netflix, youtube, airplay,
\* xbox; the playlist action runs before the mp3 action.
C14_TestedOrderHolds == CallsFollow(TestedOrder)

C14_Witness ==
    /\ AddedBoundDone
    /\ \E i \in DOMAIN calls : \E j \in DOMAIN calls :
         i < j /\ calls[i] = Call("playlist") /\ calls[j] = Call("mp3")
    /\ Called("p.playlist")
    /\ Called("p.open")

\* The calls the step appends to the log.
NewCalls == {calls'[i] : i \in DOMAIN calls' \ DOMAIN calls}

\* The step is a field action that reports failure.
ActionFails ==
    \/ NewCalls \cap {<<"subprocess.run", 0>>, <<"spotify.spotcast", 0>>,
                      <<"appletv.launch", 0>>, <<"homepod.stream_file", 0>>,
                      <<"xboxctl.sync_power_on", 0>>} # {}
    \/ /\ pc = "playlist"
       /\ pc' \notin {"playlist", "crashed"}
       /\ Call("p.playlist") \notin NewCalls

\* C15: a field action that reports failure flashes RED on the pad the tag
\* was placed on, and the processing goes on.
C15_FailureFlashesRed ==
    [][ActionFails => /\ lastWrite' = PadWrite(0, "flash", ev.pad, "RED")
                      /\ pc' # "crashed"]_vars

\* The provider a logged verb belongs to, "" for a call that is no verb.
ProviderOf(c) ==
    IF c \in {"samsungtv.send_key:OK", "samsungtv.send_key:nav",
              "samsungtv.switch_to_appletv"} THEN "samsungtv"
    ELSE IF c = "huesyncbox.switch_to_appletv_sync" THEN "huesyncbox"
    ELSE IF c = "homepod.stream_file" THEN "homepod"
    ELSE IF c \in {"xboxctl.sync_power_on", "xboxctl.sync_launch_app"}
         THEN "xboxctl"
    ELSE IF c = "appletv.launch" THEN "appletv"
    ELSE ""

\* C16: every provider verb logged for the current event comes after a
\* configured() call of its provider that answered true.
C16_VerbsAfterConfigured ==
    \A i \in DOMAIN calls :
        ProviderOf(calls[i][1]) # ""
            => \E j \in DOMAIN calls :
                 /\ j < i
                 /\ calls[j][1] \in {"samsungtv.configured",
                                     "huesyncbox.configured"}
                 /\ calls[j] = <<calls[j][1], 1>>
                 /\ ProviderOf(calls[i][1])
                      = IF calls[j][1] = "samsungtv.configured"
                        THEN "samsungtv" ELSE "huesyncbox"

\* C17: between the control thread's read of mp3state / mp3elapsed and the
\* write or action that depends on it (pauseMp3 215-218, playMp3 225-230) no
\* other thread writes these globals.
C17_NoWriteBetweenTestAndSet ==
    [][(pc \in {"rm_pause_set", "mp3_res"} /\ pc' = pc)
         => UNCHANGED <<mp3state, mp3elapsed>>]_vars

\* C19: the step in which a Lightshow thread returns writes pad 0 OFF, and a
\* pad write by a thread is made only while that thread is in its loop, so
\* nothing follows the exit write.
C19_ExitWritesPadZeroOff ==
    [][\A i \in ThreadSlots :
         /\ (threads[i].st = "loop" /\ threads'[i].st = "done")
              => lastWrite' = [by |-> i, op |-> "switch", pad |-> 0,
                               col |-> "OFF"]
         /\ lastWrite'.by = i => threads[i].st = "loop"
         /\ threads[i].st = "done" => threads'[i].st \in {"done", "new"}]_vars

C19_Witness ==
    \E i \in ThreadSlots :
        /\ threads[i].st = "done"
        /\ ~threads[i].do_run
        /\ lastWrite = [by |-> i, op |-> "switch", pad |-> 0, col |-> "OFF"]
        /\ pc \in {"rm_join", "add_join"}

\* C20: with tags['lights'] false no Lightshow thread is ever started: no
\* Thread object exists, self.lightshowThread is never assigned and no pad is
\* written by a Lightshow.
C20_LightsOffNoShow ==
    ~switch_lights =>
        /\ \A i \in ThreadSlots : threads[i].st = "done"
        /\ lightshowThread = 0
        /\ lastWrite.by = 0

C20_Witness ==
    /\ ~switch_lights
    /\ AddedBoundDone
    /\ CalledWith("startLightshow", MaxDur)
    /\ mp3state = "PLAYING"

\* ------------------------------------------------- the Lightshow under fairness
\* A portal with lights on and bindings whose fields all start a Lightshow.
LiveInit ==
    /\ Init
    /\ binding = [X |-> {"playlist", "mp3"}, Y |-> {"playlist"}]
    /\ devPresent
    /\ switch_lights

\* The steps of Next that such a configuration can take.
LiveNext ==
    \/ Startup
    \/ RemovedOther
    \/ RemovedCurrent
    \/ RemovedJoin
    \/ PauseTest
    \/ PauseSet
    \/ RemovedSpotify
    \/ Added
    \/ AddedBound
    \/ AddedUnknown
    \/ FPlaylist
    \/ FMp3
    \/ FMp3Resume
    \/ FMp3New
    \/ Worker
    \/ PlayerReport
    \/ Monitor

\* Every started thread is scheduled again and again; a join returns once the
\* joined thread has returned.
LiveSpec ==
    /\ LiveInit
    /\ [][LiveNext]_vars
    /\ \A i \in ThreadSlots : WF_vars(WorkerBegin(i)) /\ WF_vars(WorkerLoop(i))
    /\ WF_vars(RemovedJoin)
    /\ WF_vars(AddedBound)
    /\ WF_vars(AddedUnknown)

\* C18: every Lightshow thread that has been started returns, with or without
\* a cancel, and every join of the control thread completes (unless the
\* control loop has ended with an exception before).
C18_WorkersExit ==
    /\ \A i \in ThreadSlots :
         (threads[i].st # "done") ~> (threads[i].st = "done" \/ pc = "crashed")
    /\ (pc \in {"rm_join", "add_join"})
         ~> (pc \notin {"rm_join", "add_join"})

C18_Witness ==
    /\ pc = "rm_pause"
    /\ lightshowThread # 0
    /\ threads[lightshowThread].st = "done"
    /\ ~threads[lightshowThread].do_run
    /\ \E i \in ThreadSlots : threads[i].st = "loop" /\ threads[i].do_run

\* ------------------------------------------------------------------ C21
\* C21 as stated: in every reachable state, from startup on, mp3state is one
\* of STOPPED, PLAYING, PAUSED. startLego begins with mp3state = None (line
\* 294), so the first state already has a fourth value.
C21_PlaybackStateIsOneOfThree == mp3state \in {"STOPPED", "PLAYING", "PAUSED"}

\* C21 as the code has it: mp3state is None or one of STOPPED, PLAYING,
\* PAUSED in every reachable state, and once it holds one of the three no
\* step sets it back to None.
C21_PlaybackStateOrUnset ==
    /\ [](mp3state \in {None, "STOPPED", "PLAYING", "PAUSED"})
    /\ [][mp3state # None => mp3state' \in {"STOPPED", "PLAYING", "PAUSED"}]_vars

\* The monitor has delivered a notification while a tag is being played.
C21_Witness ==
    /\ mp3state \in {"PLAYING", "PAUSED"}
    /\ current_tag # None
    /\ mp3elapsed # Unset
    /\ pc = "poll"

\* ------------------------------------------------ the portal driver (Dimensions)
\* Bytes that stand for all bytes in commands that are not pad encodings.
ByteSamples == {0, 1, 128, 255}

\* Commands of 0..MaxCommand equal bytes, given to send_command directly.
Commands == {[i \in 1..n |-> b] : n \in 0..MaxCommand, b \in ByteSamples}

\* The colours of Base.__init__, lines 137-145.
RGB == [OFF |-> <<0, 0, 0>>, RED |-> <<255, 0, 0>>, GREEN |-> <<0, 255, 0>>,
        BLUE |-> <<0, 0, 255>>, PINK |-> <<255, 192, 203>>,
        ORANGE |-> <<255, 165, 0>>, PURPLE |-> <<255, 0, 255>>,
        LBLUE |-> <<173, 216, 230>>, OLIVE |-> <<128, 128, 0>>]

\* Pad 0 addresses all pads, 1..3 one of them.
Pads == 0..3

\* Python's exception classes, each with its base class.
BaseClass == [USBTimeoutError |-> "USBError", USBError |-> "OSError",
              OSError |-> "Exception", AttributeError |-> "Exception",
              IndexError |-> "Exception", ValueError |-> "Exception",
              Exception |-> "BaseException"]

RECURSIVE IsInstance(_, _)
IsInstance(e, class) ==
    \/ e = class
    \/ e \in DOMAIN BaseClass /\ IsInstance(BaseClass[e], class)

\* send_command with no except clause.
WriteHandlersNone == {}

\* line 88: except usb.core.USBError
WriteHandlers == {"USBError"}

\* update_nfc with the USB except clauses only.
ReadHandlersUsbOnly == {"USBTimeoutError", "USBError"}

\* lines 125, 128, 131: except USBTimeoutError / USBError / Exception
ReadHandlers == {"USBTimeoutError", "USBError", "Exception"}

\* What the caller of a try statement with these handlers sees of e.
Propagated(e, handlers) ==
    IF e = "" \/ \E h \in handlers : IsInstance(e, h) THEN "" ELSE e

\* Lines 78-79 with > for >=.
ReduceAbove(checksum) == IF checksum > 256 THEN checksum - 256 ELSE checksum

\* lines 78-79: if checksum >= 256: checksum -= 256
Reduce(checksum) == IF checksum >= 256 THEN checksum - 256 ELSE checksum

\* lines 75-79: the loop over the words of the command.
RECURSIVE Checksum(_)
Checksum(cmd) ==
    IF cmd = <<>> THEN 0
    ELSE Reduce(Checksum(SubSeq(cmd, 1, Len(cmd) - 1)) + cmd[Len(cmd)])

\* lines 81-84: message = command + [checksum], then 0x00 appended while the
\* message is shorter than FrameLen.
Message(cmd) ==
    LET m == Append(cmd, Checksum(cmd))
    IN  IF Len(m) < FrameLen
        THEN m \o [i \in 1..(FrameLen - Len(m)) |-> 0]
        ELSE m

\* What self.dev.write(1, message) does: it returns, or raises USBError; with
\* self.dev = None the attribute lookup raises AttributeError.
WriteOutcomes(present) ==
    IF present THEN {"", "USBError"} ELSE {"AttributeError"}

\* send_command, lines 74-89.
SendCommand(cmd) ==
    /\ called # ""
    /\ raised = ""
    /\ called' = "send_command"
    /\ command' = cmd
    /\ \E w \in WriteOutcomes(devPresent) :
         /\ message' = IF devPresent THEN Message(cmd) ELSE <<>>
         /\ write_exc' = w
         /\ raised' = Propagated(w, WriteHandlers)
    /\ inwards_packet' = NoRead
    /\ tag' = NoTag
    /\ UNCHANGED <<pc, err, config, ev, session, mp3elapsed, player, queue,
                   shows, joinT, lastWrite, calls, seqn>>

\* switch_pad, lines 91-94.
SwitchPad ==
    \E pad \in Pads, c \in DOMAIN RGB :
        SendCommand(<<85, 6, 192, 2, pad>> \o RGB[c])

\* fade_pad, lines 96-99.
FadePad ==
    \E pad \in Pads, pulse_time \in {10}, pulse_count \in {1, 3},
       c \in DOMAIN RGB :
        SendCommand(<<85, 8, 194, 15, pad, pulse_time, pulse_count>> \o RGB[c])

\* flash_pad, lines 101-105.
FlashPad ==
    \E pad \in Pads, on_length \in {10}, off_length \in {10},
       pulse_count \in {2, 3}, c \in DOMAIN RGB :
        SendCommand(<<85, 9, 195, 3, pad, on_length, off_length, pulse_count>>
                    \o RGB[c])

SendAny == \E cmd \in Commands : SendCommand(cmd)

\* ---- update_nfc
\* Identifier bytes of tags (bytelist[6:13]).
UidSamples ==
    { <<0, 0, 0, 161, 178, 195, 212>>,
      <<161, 0, 0, 0, 178, 195, 212>>,
      <<161, 178, 195, 212, 0, 0, 0>>,
      <<4, 161, 178, 195, 212, 229, 246>>,
      <<16, 0, 0, 10, 178, 195, 212>>,
      <<4, 0, 0, 0, 0, 0, 0>>,
      <<0, 0, 0, 0, 0, 0, 0>>,
      <<0, 0, 0, 4, 161, 0, 0>> }

\* A frame of FrameLen bytes as the portal sends them: marker, pad at offset
\* 2, removal flag at offset 5, identifier at offsets 6..12.
Frame(marker, pad, flag, uid) ==
    <<marker, 11, pad, 0, 1, flag>> \o uid
        \o [i \in 1..(FrameLen - 6 - Len(uid)) |-> 0]

Frames ==
    {Frame(m, p, f, u) : m \in {86, 85, 0}, p \in 1..3, f \in {0, 1, 255},
                          u \in UidSamples}

\* What self.dev.read(0x81, 32, timeout=100) does with a device: a frame, a
\* frame cut short (up to MaxShort bytes), or one of three exceptions.
ReadOutcomes(present) ==
    IF present
    THEN {[exc |-> "", bytes |-> f] : f \in Frames}
         \cup {[exc |-> "", bytes |-> SubSeq(f, 1, n)] :
                   f \in Frames, n \in 0..MaxShort}
         \cup {[exc |-> e, bytes |-> <<>>] :
                   e \in {"USBTimeoutError", "USBError", "ValueError"}}
    ELSE {[exc |-> "AttributeError", bytes |-> <<>>]}

HexDigits == <<"0", "1", "2", "3", "4", "5", "6", "7", "8", "9",
               "a", "b", "c", "d", "e", "f">>

\* binascii.hexlify(...).decode("utf-8"), line 117: two digits for each byte,
\* the high one first.
Hexlify(bytes) ==
    [i \in 1..(2 * Len(bytes)) |->
        IF i % 2 = 1 THEN HexDigits[(bytes[(i + 1) \div 2] \div 16) + 1]
                     ELSE HexDigits[(bytes[i \div 2] % 16) + 1]]

ZeroGroup == <<"0", "0", "0", "0", "0", "0">>

\* identifier.replace('000000', ''), line 118: every occurrence, found from
\* left to right without overlap, is taken out.
RECURSIVE Replace(_)
Replace(s) ==
    IF s = <<>> THEN <<>>
    ELSE IF Len(s) >= Len(ZeroGroup) /\ SubSeq(s, 1, Len(ZeroGroup)) = ZeroGroup
    THEN Replace(SubSeq(s, Len(ZeroGroup) + 1, Len(s)))
    ELSE <<Head(s)>> \o Replace(Tail(s))

\* bytelist[6:13], line 116 (a slice never fails, it is cut at the end).
UidBytes(bytelist) ==
    SubSeq(bytelist, 7, IF Len(bytelist) < 13 THEN Len(bytelist) ELSE 13)

\* Line 114 without its test.
IsEventAny(bytelist) == TRUE

\* line 114: if bytelist[0] == 0x56
IsEvent(bytelist) == bytelist[1] = 86

\* The exception the body of update_nfc meets: that of the read, or
\* IndexError at bytelist[2] / bytelist[5] of a frame cut short.
BodyException(r) ==
    IF r.exc # "" THEN r.exc
    ELSE IF r.bytes # <<>> /\ IsEvent(r.bytes) /\ Len(r.bytes) < 6
    THEN "IndexError"
    ELSE ""

\* lines 114-124: status, pad and identifier of the returned string
\* 'added:<pad>:<identifier>' / 'removed:<pad>:<identifier>'.
Decoded(bytelist) ==
    <<IF bytelist[6] # 0 THEN "removed" ELSE "added",
      bytelist[3],
      Replace(Hexlify(UidBytes(bytelist)))>>

\* update_nfc, lines 107-133.
UpdateNfc ==
    /\ called # ""
    /\ raised = ""
    /\ called' = "update_nfc"
    /\ \E r \in ReadOutcomes(devPresent) :
         /\ inwards_packet' = r
         /\ tag' = IF BodyException(r) = "" /\ r.bytes # <<>>
                       /\ IsEvent(r.bytes)
                    THEN Decoded(r.bytes)
                    ELSE NoTag
         /\ raised' = Propagated(BodyException(r), ReadHandlers)
    /\ command' = <<>>
    /\ message' = <<>>
    /\ write_exc' = ""
    /\ UNCHANGED <<pc, err, config, ev, session, mp3elapsed, player, queue,
                   shows, joinT, lastWrite, calls, seqn>>

\* A frame whose checksum byte is one too large.
InitFrameOffByOne ==
    <<85, 15, 176, 1, 40, 99, 41, 32, 76, 69, 71, 79, 32, 50, 48, 49, 52, 248>>
        \o [i \in 1..14 |-> 0]

\* lines 68-71: the frame init_usb writes, 0x55 0x0f 0xb0 0x01 "(c) LEGO
\* 2014" 0xf7 and fourteen 0x00.
InitFrame ==
    <<85, 15, 176, 1, 40, 99, 41, 32, 76, 69, 71, 79, 32, 50, 48, 49, 52, 247>>
        \o [i \in 1..14 |-> 0]

\* lines 41-45: except (ValueError, usb.core.USBError)
InitHandlers == {"ValueError", "USBError"}

\* What init_usb meets: with a device nothing, or USBError from one of its
\* USB calls before or at the write; without one usb.core.find returns None
\* and line 52 raises ValueError.
InitOutcomes(present) ==
    IF present THEN {"", "USBError"} ELSE {"ValueError"}

\* Dimensions.__init__ and init_usb, lines 40-72. (A device whose
\* initialisation failed is not followed further: self.dev is None, as with
\* no device.)
InitUsb ==
    /\ called = ""
    /\ called' = "init_usb"
    /\ \E e \in InitOutcomes(devPresent) :
         /\ devPresent' = (devPresent /\ e = "")
         /\ message' = IF e = "" THEN InitFrame ELSE <<>>
         /\ write_exc' = ""
         /\ raised' = Propagated(e, InitHandlers)
    /\ UNCHANGED <<command, inwards_packet, tag>>
    /\ UNCHANGED <<pc, err, switch_lights, spotifyActive, syncConfigured,
                   tvConfigured, binding, ev, session, mp3elapsed, player,
                   queue, shows, joinT, lastWrite, calls, seqn>>

\* The driver alone: a caller that makes one call after another for as long
\* as no call raises.
PortalInit ==
    /\ Init
    /\ binding = [X |-> {"mp3"}, Y |-> {"mp3"}]
    /\ switch_lights

PortalNext ==
    \/ InitUsb
    \/ SendAny
    \/ SwitchPad
    \/ FadePad
    \/ FlashPad
    \/ UpdateNfc

PortalSpec == PortalInit /\ [][PortalNext]_vars

\* ------------------------------------------------------------------ C22
RECURSIVE Sum(_)
Sum(s) == IF s = <<>> THEN 0 ELSE Head(s) + Sum(Tail(s))

IsBytes(s) == \A i \in DOMAIN s : s[i] \in 0..255

\* send_command has handed a frame to the device.
FrameSent == called = "send_command" /\ message # <<>>

\* C22: for every command whose elements are bytes in 0..255, the byte that
\* send_command puts directly after the command is the sum of all command
\* bytes modulo 256.
C22_ChecksumIsSumMod256 ==
    (FrameSent /\ IsBytes(command))
        => message[Len(command) + 1] = Sum(command) % 256

\* A command whose bytes add up to two or more times 256 has been sent.
C22_Witness ==
    /\ FrameSent
    /\ IsBytes(command)
    /\ Sum(command) >= 512
    /\ Sum(command) % 256 # 0
    /\ message[Len(command) + 1] = Sum(command) % 256

FrameRead == inwards_packet.exc = "" /\ inwards_packet.bytes # <<>>

\* C24: update_nfc returns a tag event only for a frame whose first byte is
\* 0x56; the pad of the event is the byte at offset 2, its kind is removed
\* exactly when the byte at offset 5 is not zero and added otherwise, and its
\* identifier is made from the seven bytes at offsets 6..12 in hex; a full
\* frame that starts with 0x56 yields an event, a frame that starts with any
\* other byte yields none.
C24_DecodesMarkedFramesOnly ==
    LET b == inwards_packet.bytes
    IN  /\ tag # NoTag =>
              /\ FrameRead
              /\ b[1] = 86
              /\ tag[2] = b[3]
              /\ tag[1] = (IF b[6] = 0 THEN "added" ELSE "removed")
              /\ tag[3] = Replace(Hexlify(SubSeq(b, 7,
                              IF Len(b) < 13 THEN Len(b) ELSE 13)))
        /\ (FrameRead /\ Len(b) = FrameLen /\ b[1] = 86) => tag # NoTag
        /\ (FrameRead /\ b[1] # 86) => tag = NoTag

\* The frame 0x56, pad 2, not removed, identifier bytes 00 00 00 a1 b2 c3 d4
\* has been decoded to added:2:a1b2c3d4.
C24_Witness ==
    /\ FrameRead
    /\ Len(inwards_packet.bytes) = FrameLen
    /\ inwards_packet.bytes[1] = 86
    /\ SubSeq(inwards_packet.bytes, 7, 13) = <<0, 0, 0, 161, 178, 195, 212>>
    /\ tag = <<"added", 2, <<"a", "1", "b", "2", "c", "3", "d", "4">>>>

\* ------------------------------------------------------------------ C25
\* A hex string without its leading group of six zero digits, if it has one.
WithoutLeadingGroup(s) ==
    IF Len(s) >= Len(ZeroGroup) /\ SubSeq(s, 1, Len(ZeroGroup)) = ZeroGroup
    THEN SubSeq(s, Len(ZeroGroup) + 1, Len(s))
    ELSE s

\* C25: the identifier of a decoded event is the hex of the seven identifier
\* bytes with only a leading all-zero group removed, so that identifier
\* bytes which differ after the leading zeros give different identifiers.
\* replace('000000', '') takes the group out wherever it occurs, also in
\* the middle, at the end and across byte borders.
C25_OnlyLeadingGroupRemoved ==
    (FrameRead /\ tag # NoTag /\ Len(inwards_packet.bytes) = FrameLen) =>
        LET hex == Hexlify(SubSeq(inwards_packet.bytes, 7, 13))
        IN  /\ tag[3] = WithoutLeadingGroup(hex)
            /\ \A u \in UidSamples :
                   WithoutLeadingGroup(Hexlify(u)) # WithoutLeadingGroup(hex)
                       => Replace(Hexlify(u)) # tag[3]

\* ------------------------------------------------------------------ C26
\* update_nfc is the driver call that was made last.
Polled == inwards_packet # NoRead

\* C26: update_nfc never raises. Whatever the device read does (timeout, USB
\* error, any other exception, a frame cut short, no device at all), the
\* call returns to its caller, with no event unless a 0x56 frame was read,
\* and the caller can poll again.
C26_PollNeverRaises ==
    Polled =>
        /\ raised = ""
        /\ (inwards_packet.exc # "" \/ inwards_packet.bytes = <<>>
              \/ Len(inwards_packet.bytes) < 6) => tag = NoTag
        /\ ENABLED UpdateNfc

\* With no device the read fails on self.dev = None and update_nfc returns
\* no event.
C26_Witness ==
    /\ ~devPresent
    /\ inwards_packet.exc = "AttributeError"
    /\ tag = NoTag
    /\ raised = ""

\* ------------------------------------------------------------------ C27
\* C27: a USB error of the write in send_command is swallowed: the caller of
\* send_command, switch_pad, fade_pad or flash_pad gets no exception, and the
\* call leaves the session state as it was.
C27_WriteErrorSwallowed ==
    [][write_exc' = "USBError"
         => /\ raised' = ""
            /\ UNCHANGED <<session, mp3elapsed, pc, err>>]_vars

\* A flash_pad whose write failed with USBError has returned to its caller.
C27_Witness ==
    /\ write_exc = "USBError"
    /\ Len(command) = 11
    /\ command[3] = 195
    /\ raised = ""

\* ------------------------------------------------------------------ C28
DeepLinkFields == {"disney", "netflix", "youtube"}
IsOkPress(i) == calls[i][1] = "samsungtv.send_key:OK"
IsLaunch(i) == calls[i][1] = "appletv.launch"

\* The deep-link family whose branch made call j.
FamilyOf(j) ==
    LET marks == {i \in 1..j : calls[i][1] \in DeepLinkFields}
    IN  calls[CHOOSE i \in marks : \A k \in marks : k <= i][1]

\* The number of OK presses that directly follow call j.
OkRunAfter(j) ==
    Cardinality({k \in (j + 1)..Len(calls) :
                    \A m \in (j + 1)..k : IsOkPress(m)})

\* C28: for disney, netflix and youtube the OK key presses come only after
\* the family's launch call returned success, directly after it and in the
\* family's number (two for netflix, one for disney and youtube); after a
\* launch that failed no key is pressed, and the step that made the failed
\* launch flashes the pad of the tag red.
C28_KeysOnlyAfterLaunch ==
    /\ [](\A j \in DOMAIN calls :
            /\ IsLaunch(j) =>
                 OkRunAfter(j) = (IF calls[j][2] = 0 THEN 0
                                  ELSE IF FamilyOf(j) = "netflix" THEN 2
                                  ELSE 1)
            /\ IsOkPress(j) =>
                 /\ j > 1
                 /\ IsOkPress(j - 1) \/ calls[j - 1] = <<"appletv.launch", 1>>)
    /\ [][(pc \in DeepLinkFields /\ \E j \in DOMAIN calls' :
                /\ j > Len(calls)
                /\ calls'[j] = <<"appletv.launch", 0>>)
           => lastWrite' = PadWrite(0, "flash", ev.pad, "RED")]_vars

\* One event has had a failed disney launch with no key press and then a
\* netflix launch that succeeded and was followed by two OK presses.
C28_Witness ==
    \E i, j \in DOMAIN calls :
        /\ i < j
        /\ calls[i] = <<"appletv.launch", 0>>
        /\ FamilyOf(i) = "disney"
        /\ calls[j] = <<"appletv.launch", 1>>
        /\ FamilyOf(j) = "netflix"
        /\ OkRunAfter(j) = 2
        /\ Len(calls) = j + 2

\* ------------------------------------------------------------------ C29
IsHdmiReturn(j) == calls[j][1] = "switchHdmiToAppleTv"

\* The calls switchHdmiToAppleTv made before it returned at j: those after
\* the mark of the deep-link branch that called it.
HdmiRun(j) ==
    LET marks == {i \in 1..j : calls[i][1] \in DeepLinkFields}
    IN  ((CHOOSE i \in marks : \A k \in marks : k <= i) + 1)..(j - 1)

SyncSwitched(run) ==
    \E k \in run : calls[k] = <<"huesyncbox.switch_to_appletv_sync", 1>>
TvSwitched(run) ==
    \E k \in run : calls[k] = <<"samsungtv.switch_to_appletv", 1>>
IsSamsungCall(k) ==
    calls[k][1] \in {"samsungtv.configured", "samsungtv.switch_to_appletv"}
IsSyncCall(k) ==
    calls[k][1] \in {"huesyncbox.configured",
                     "huesyncbox.switch_to_appletv_sync"}

\* C29: switchHdmiToAppleTv asks the Hue Sync Box first and switches through
\* it if it is configured; it calls the Samsung TV switch only if the Sync
\* Box is not configured or its switch did not succeed, never after a Sync
\* Box switch that succeeded; and it returns true exactly when one of the two
\* switches succeeded.
C29_SyncBoxBeforeSamsung ==
    \A j \in DOMAIN calls : IsHdmiReturn(j) =>
        LET run == HdmiRun(j)
        IN  /\ run # {}
            /\ \A k \in run : IsSyncCall(k) \/ IsSamsungCall(k)
            /\ \A k \in run : k - 1 \notin run =>
                   calls[k] = <<"huesyncbox.configured",
                                IF syncConfigured THEN 1 ELSE 0>>
            /\ syncConfigured <=>
                   \E k \in run :
                       calls[k][1] = "huesyncbox.switch_to_appletv_sync"
            /\ \A k, m \in run : (IsSyncCall(k) /\ IsSamsungCall(m)) => k < m
            /\ SyncSwitched(run) => \A k \in run : ~IsSamsungCall(k)
            /\ (\E k \in run : calls[k][1] = "samsungtv.switch_to_appletv")
                   <=> (~SyncSwitched(run) /\ tvConfigured)
            /\ calls[j][2] = 1 <=> (SyncSwitched(run) \/ TvSwitched(run))

\* The Sync Box was configured and its switch failed, the Samsung TV was
\* tried next and switched, and switchHdmiToAppleTv returned true.
C29_Witness ==
    \E j \in DOMAIN calls :
        /\ j > 4
        /\ calls[j] = <<"switchHdmiToAppleTv", 1>>
        /\ calls[j - 1] = <<"samsungtv.switch_to_appletv", 1>>
        /\ calls[j - 2] = <<"samsungtv.configured", 1>>
        /\ calls[j - 3] = <<"huesyncbox.switch_to_appletv_sync", 0>>
        /\ calls[j - 4] = <<"huesyncbox.configured", 1>>

\* ------------------------------------------- the Lightshow with all its draws
\* Tags that play an mp3 each, lights on, and the Lightshow drawing from all
\* three pads and all eight colours.
ShowInit ==
    /\ Init
    /\ binding = [X |-> {"mp3"}, Y |-> {"mp3"}]
    /\ devPresent
    /\ switch_lights

ShowNext ==
    \/ Startup
    \/ RemovedOther
    \/ RemovedCurrent
    \/ RemovedJoin
    \/ PauseTest
    \/ PauseSet
    \/ RemovedSpotify
    \/ Added
    \/ AddedBound
    \/ AddedUnknown
    \/ FMp3
    \/ FMp3Resume
    \/ FMp3New
    \/ WorkerFull

ShowSpec == ShowInit /\ [][ShowNext]_vars

\* ------------------------------------------------------------------ C30
Palette == {COLOURS[k] : k \in DOMAIN COLOURS}

\* C30: every pad write of a Lightshow worker goes to pad 0, 1 or 2; its
\* colour is one of the eight colours of the palette, except for the write
\* with which the worker returns, which is the only one in the off colour.
C30_ShowWritesPaletteOnFirstPads ==
    [][\A i \in ThreadSlots : lastWrite'.by = i =>
         /\ lastWrite'.op = "switch"
         /\ lastWrite'.pad \in {0, 1, 2}
         /\ Cardinality(Palette) = 8
         /\ IF threads'[i].st = "done"
            THEN lastWrite'.col = "OFF"
            ELSE lastWrite'.col \in Palette \ {"OFF"}]_vars

\* A worker that is still in its loop has just written the last colour of
\* the palette to the third pad.
C30_Witness ==
    \E i \in ThreadSlots :
        /\ lastWrite = [by |-> i, op |-> "switch", pad |-> 2, col |-> "OLIVE"]
        /\ threads[i].st = "loop"

\* ------------------------------------------------------------------ C31
\* C31: whenever Removed(current_tag) is processed while the player is in
\* fact playing, p.pause() is called, also right after a resume and whether
\* or not the monitor has reported PLAYING yet. pauseMp3 tests the global
\* mp3state, not the player: after the resume path of playMp3 the global is
\* still PAUSED until the monitor writes it, and stopMp3 sets it to STOPPED
\* without stopping the player.
C31_PauseSentWhilePlaying ==
    [][(pc = "rm_pause" /\ pc' # "rm_pause" /\ pstate = "PLAYING")
         => /\ \E i \in DOMAIN calls' : calls'[i] = Call("p.pause")
            /\ pstate' = "PAUSED"]_vars

\* ------------------------------------------------------------------ C32
\* pauseMp3 has sent p.pause() and set mp3state = 'PAUSED' for the Removed
\* event in ev, and no later event has been taken up yet.
PausedByRemoved ==
    /\ ev.status = "removed"
    /\ pc \in {"rm_spotify", "poll"}
    /\ \E i \in DOMAIN calls : calls[i] = Call("p.pause")

\* C32: once the control thread has set mp3state to PAUSED while processing
\* Removed(current_tag), it is still PAUSED when the next Added event is
\* taken up: no notification of the monitor overwrites it in between. The
\* monitor assigns mp3state from whatever notification is next in the queue,
\* also one the player produced before the pause.
C32_PausedStaysUntilAdded ==
    [][(PausedByRemoved /\ mp3state = "PAUSED") => mp3state' = "PAUSED"]_vars

\* ------------------------------------------------------------------ C33
\* The fields whose branch calls stopMp3 before handing over to a provider:
\* lines 384, 396, 411, 430, 445, 458.
DelegatedFields == {"spotify", "disney", "netflix", "youtube", "airplay",
                    "xbox"}

\* C33: when the control thread sets mp3state to STOPPED before a delegated
\* action, the local player is not left playing. stopMp3 assigns the global
\* and makes no call to the player.
C33_StoppedMeansSilent ==
    [][(pc \in DelegatedFields /\ pc' # pc /\ mp3state' = "STOPPED")
         => pstate' # "PLAYING"]_vars

\* ------------------------------------------------------------------ C34
\* C34: with spotify activated, spotify.resume() is called for a tag only if
\* that tag was started by spotify.spotcast() earlier; the first Added of
\* such a tag calls spotcast. Every spotcast is preceded by stopMp3 (line
\* 384), so while mp3state is still None no cast has been made and resume
\* must not be called. The first tag ever added gets previous_tag =
\* current_tag = identifier (347-351), which is the test for resume (377).
C34_ResumeOnlyAfterCast ==
    [][(pc = "spotify" /\ pc' # pc /\ spotifyActive /\ mp3state = None)
         => /\ \A i \in DOMAIN calls' : calls'[i][1] # "spotify.resume"
            /\ \E i \in DOMAIN calls' : calls'[i][1] = "spotify.spotcast"]_vars

\* ------------------------------------------------------------------ C35
\* playMp3 took the resume path (p.play() at line 228) and has come to the
\* new play of lines 234-236.
ResumeFellThrough ==
    /\ pc = "mp3_new"
    /\ \E i \in DOMAIN calls : calls[i] = Call("p.play")

\* C35: on the resume path of playMp3, if mp3_duration - mp3elapsed is below
\* 0.1 s the file is opened and played again, a Lightshow is started for the
\* whole duration of the track and mp3state becomes PLAYING; if it is 0.1 s
\* or more the file is not opened again, the Lightshow is started for the
\* remaining time and the control thread does not write mp3state. (Steps in
\* which playMp3 raises are left out: they are C3 and C36.)
C35_ShortRemainderReplays ==
    [][/\ (pc = "mp3_res" /\ pc' \notin {"mp3_res", "crashed"}) =>
            IF mp3_duration - mp3elapsed >= ResumeMin
            THEN /\ pc' # "mp3_new"
                 /\ calls' = Append(calls, <<"startLightshow",
                                             mp3_duration - mp3elapsed>>)
                 /\ UNCHANGED <<mp3state, pstate>>
            ELSE /\ pc' = "mp3_new"
                 /\ UNCHANGED <<calls, mp3state, pstate>>
       /\ (ResumeFellThrough /\ pc' \notin {"mp3_new", "crashed"}) =>
            /\ calls' = calls \o <<Call("p.open"), Call("p.play"),
                                   <<"startLightshow", mp3_duration'>>>>
            /\ mp3_duration' = MaxDur
            /\ mp3state' = "PLAYING"
            /\ pstate' = "PLAYING"]_vars

\* A resume with less than 0.1 s left has opened and played the file again
\* and started a Lightshow for the whole track.
C35_Witness ==
    /\ mp3state = "PLAYING"
    /\ \E i \in DOMAIN calls :
         /\ i + 3 = Len(calls)
         /\ calls[i] = Call("p.play")
         /\ calls[i + 1] = Call("p.open")
         /\ calls[i + 2] = Call("p.play")
         /\ calls[i + 3] = <<"startLightshow", MaxDur>>

\* ------------------------------------------------------------------ C36
\* C36: whenever the resume path of playMp3 reads mp3_duration and mp3elapsed
\* (line 229), both have been assigned. mp3elapsed is assigned by the monitor
\* thread only (line 181) and nowhere initialised, and nothing makes the
\* control thread wait for the first notification.
C36_ElapsedAssignedBeforeResume ==
    pc = "mp3_res" => (mp3elapsed # Unset /\ mp3_duration # Unset)

\* ------------------------------------------------------------------ C37
\* The calls of the xbox branch: those after its mark (xbox is the last
\* field of a binding).
XboxRun(j) == SubSeq(calls, j + 1, Len(calls))

IsNavKey(c) == c[1] = "samsungtv.send_key:nav"

\* C37: for a tag with an xbox field, the eight navigation keys HOME, LEFT,
\* DOWN, RIGHT, DOWN, DOWN, DOWN, OK are sent, in this order and all of them
\* even if one fails, exactly when samsungtv.configured() is true; the
\* power-on of the console is called in either case; the app launch is
\* called only after a power-on that succeeded and only if the binding has
\* xbox_app; a failed power-on flashes the pad red and launches nothing.
C37_XboxKeysPowerLaunch ==
    /\ NavKeys = <<"HOME", "LEFT", "DOWN", "RIGHT", "DOWN", "DOWN", "DOWN",
                   "OK">>
    /\ [](\A j \in DOMAIN calls : calls[j] = Call("xbox") =>
            LET r == XboxRun(j)
                p == IF tvConfigured THEN 10 ELSE 2
                launch == Len(r) > p
            IN  /\ Len(r) >= p
                /\ r[1] = <<"samsungtv.configured",
                            IF tvConfigured THEN 1 ELSE 0>>
                /\ \A k \in 2..(p - 1) :
                       /\ IsNavKey(r[k])
                       /\ r[k][2] \in {k - 1, 0}
                /\ \A k \in p..Len(r) : ~IsNavKey(r[k])
                /\ r[p][1] = "xboxctl.sync_power_on"
                /\ launch <=> (r[p][2] = 1 /\ "xbox_app" \in binding[ev.id])
                /\ launch => (Len(r) = p + 1
                              /\ r[p + 1] = Call("xboxctl.sync_launch_app")))
    /\ [][(pc = "xbox" /\ pc' # pc
             /\ calls'[Len(calls')] = <<"xboxctl.sync_power_on", 0>>)
          => lastWrite' = PadWrite(0, "flash", ev.pad, "RED")]_vars

\* The fourth key failed, the four keys after it were sent all the same, the
\* console was powered on and the app of the binding was launched.
C37_Witness ==
    \E j \in DOMAIN calls :
        /\ calls[j] = Call("xbox")
        /\ Len(calls) = j + 11
        /\ calls[j + 5] = <<"samsungtv.send_key:nav", 0>>
        /\ \A k \in 6..9 : calls[j + k] = <<"samsungtv.send_key:nav", k - 1>>
        /\ calls[j + 10] = <<"xboxctl.sync_power_on", 1>>
        /\ calls[j + 11] = Call("xboxctl.sync_launch_app")

\* ------------------------------------------------------------------ C38
\* init_usb has written its frame to the device.
InitFrameSent == called = "init_usb" /\ message # <<>>

\* C38: the frame init_usb writes is framed as send_command frames a
\* command: it is 32 bytes long, its byte at index 17 (0xf7) is the sum of
\* the 17 bytes before it modulo 256, its second byte (0x0f) is the number
\* of bytes between it and the checksum, every byte after the checksum is
\* zero, and send_command would build the same frame from the first 17
\* bytes.
C38_InitFrameIsFramed ==
    InitFrameSent =>
        /\ Len(message) = FrameLen
        /\ message[18] = 247
        /\ message[18] = Sum(SubSeq(message, 1, 17)) % 256
        /\ message[2] = 15
        /\ message[2] = Cardinality(3..17)
        /\ \A i \in 19..Len(message) : message[i] = 0
        /\ message = Message(SubSeq(message, 1, 17))

\* The portal was found and the initialisation frame, which begins 0x55 0x0f
\* 0xb0 0x01, has been written.
C38_Witness ==
    /\ InitFrameSent
    /\ devPresent
    /\ SubSeq(message, 1, 4) = <<85, 15, 176, 1>>
    /\ raised = ""

====
